---- MODULE Spec2Model ----
(***************************************************************************)
(* Model of the sentiment analysis core of                                 *)
(* chomacheto/sentiment_analysis_classifier:                               *)
(*   packages/ml_core/sentiment_pipeline.py  SentimentClassificationPipeline*)
(*   packages/ml_core/validators.py          TextValidator                 *)
(*                                                                         *)
(* A Python str is a sequence of one-character strings.  A score is an     *)
(* integer number of 1e-5 units (95000 is 0.95), so that rounding to four  *)
(* decimal places is visible.                                              *)
(***************************************************************************)
EXTENDS Integers, Sequences, FiniteSets, TLC

(***************************************************************************)
(* Bounds of the model.                                                    *)
(***************************************************************************)
NumCallers == 2
MaxCalls == 3
MaxPieces == 4
MaxLabelLen == 3
MaxAdds == 52
MaxAnalyses == 12

(***************************************************************************)
(* Python str helpers.                                                     *)
(***************************************************************************)
Rep(s, n) == [i \in 1..(n * Len(s)) |-> s[((i - 1) % Len(s)) + 1]]

RECURSIVE Flatten(_)
Flatten(ss) == IF ss = <<>> THEN <<>> ELSE Head(ss) \o Flatten(Tail(ss))

\* str.isspace() / regex \s, on the characters the model uses
IsSpace(c) == c \in {" ", "\t", "\n", "\r"}

\* str.strip()
strip(s) ==
  IF \A i \in 1..Len(s) : IsSpace(s[i]) THEN <<>>
  ELSE LET a == CHOOSE i \in 1..Len(s) :
                  ~IsSpace(s[i]) /\ \A j \in 1..(i - 1) : IsSpace(s[j])
           z == CHOOSE k \in 0..(Len(s) - 1) :
                  /\ ~IsSpace(s[Len(s) - k])
                  /\ \A j \in (Len(s) - k + 1)..Len(s) : IsSpace(s[j])
       IN SubSeq(s, a, Len(s) - z)

\* str.split(): the number of maximal runs of non-whitespace characters
WordCount(s) ==
  Cardinality({i \in 1..Len(s) :
                 ~IsSpace(s[i]) /\ (i = 1 \/ IsSpace(s[i - 1]))})

\* str.splitlines(): "\r\n" is one line break; a last line that is not
\* terminated counts when it is not empty
LineCount(s) ==
  LET breaks == {i \in 1..Len(s) :
                   \/ s[i] = "\n"
                   \/ s[i] = "\r" /\ ~(i < Len(s) /\ s[i + 1] = "\n")}
  IN Cardinality(breaks)
       + (IF Len(s) > 0 /\ Len(s) \notin breaks THEN 1 ELSE 0)

\* needle in haystack (Python substring test)
Contains(hay, needle) ==
  \E i \in 0..(Len(hay) - Len(needle)) :
     \A k \in 1..Len(needle) : hay[i + k] = needle[k]

UpperCs == <<"A","B","C","D","E","F","G","H","I","J","K","L","M",
             "N","O","P","Q","R","S","T","U","V","W","X","Y","Z">>
LowerCs == <<"a","b","c","d","e","f","g","h","i","j","k","l","m",
             "n","o","p","q","r","s","t","u","v","w","x","y","z">>

UpperSet == {UpperCs[i] : i \in 1..26}

LowerChar(c) ==
  IF c \in UpperSet
  THEN LowerCs[CHOOSE i \in 1..26 : UpperCs[i] = c]
  ELSE c

\* str.lower()
lower(s) == [i \in 1..Len(s) |-> LowerChar(s[i])]


Min(a, b) == IF a < b THEN a ELSE b
Abs(x) == IF x < 0 THEN -x ELSE x

\* round(x, 4) on a score in 1e-5 units (ties to even, as Python rounds)
Round4(x) ==
  LET a == Abs(x)
      q == a \div 10
      r == a % 10
      m == 10 * (IF r > 5 \/ (r = 5 /\ q % 2 = 1) THEN q + 1 ELSE q)
  IN IF x < 0 THEN -m ELSE m

(***************************************************************************)
(* LabelMapper: SentimentClassificationPipeline._map_sentiment_label       *)
(***************************************************************************)
PositiveMarkers == << <<"p","o","s","i","t","i","v","e">>, <<"p","o","s">>, <<"1">> >>
NegativeMarkers == << <<"n","e","g","a","t","i","v","e">>, <<"n","e","g">>, <<"0">> >>

\* any(m in label for m in markers)
AnyIn(markers, label) == \E k \in 1..Len(markers) : Contains(label, markers[k])

\* the elif chain tried in the opposite order (negative markers first)
map_sentiment_label_neg_first(model_label) ==
  LET label_lower == lower(model_label)
  IN IF AnyIn(NegativeMarkers, label_lower) THEN "negative"
     ELSE IF AnyIn(PositiveMarkers, label_lower) THEN "positive"
     ELSE "neutral"

map_sentiment_label(model_label) ==
  LET label_lower == lower(model_label)
  IN IF AnyIn(PositiveMarkers, label_lower) THEN "positive"
     ELSE IF AnyIn(NegativeMarkers, label_lower) THEN "negative"
     ELSE "neutral"

(***************************************************************************)
(* TextValidator (validators.py)                                           *)
(***************************************************************************)
MIN_TEXT_LENGTH == 1
MAX_TEXT_LENGTH == 10000
MAX_WORDS == 2000
MAX_LINES == 100

\* the string made of marked's one-character entries, the positions marked
\* <<>> (consumed by a substitution) left out
Rewrite(marked) ==
  LET kept == SelectSeq(marked, LAMBDA m : m # <<>>)
  IN [i \in 1..Len(kept) |-> kept[i][1]]

\* the substitution of line 142 collapsing runs of blanks and tabs only, line
\* breaks kept
CollapseWhitespaceKeepingLineBreaks(s) ==
  Rewrite([i \in 1..Len(s) |->
             IF s[i] \in {" ", "\t"} /\ i > 1 /\ s[i - 1] \in {" ", "\t"} THEN <<>>
             ELSE IF s[i] \in {" ", "\t"} THEN <<" ">> ELSE <<s[i]>>])

\* re.sub(r'\s+', ' ', text)
CollapseWhitespace(s) ==
  Rewrite([i \in 1..Len(s) |->
             IF IsSpace(s[i]) /\ i > 1 /\ IsSpace(s[i - 1]) THEN <<>>
             ELSE IF IsSpace(s[i]) THEN <<" ">> ELSE <<s[i]>>])

\* position i lies in a match of html_pattern, r'<[^>]+>': matches are found
\* left to right without overlap, each ends at the first ">" after its "<"
\* and needs one character in between, so between two consecutive ">" only
\* the first "<" can open a match
InTag(s, i) ==
  /\ \E h \in i..Len(s) : s[h] = ">"
  /\ LET h == CHOOSE h \in i..Len(s) :
                s[h] = ">" /\ \A k \in i..(h - 1) : s[k] # ">"
         opens == {f \in 1..i : s[f] = "<" /\ \A k \in f..(i - 1) : s[k] # ">"}
     IN \E f \in opens :
          /\ \A f2 \in opens : f <= f2
          /\ h - f >= 2

\* re.sub(self.html_pattern, '', text)
StripTags(s) ==
  IF \A i \in 1..Len(s) : s[i] # "<" THEN s
  ELSE Rewrite([i \in 1..Len(s) |-> IF InTag(s, i) THEN <<>> ELSE <<s[i]>>])

\* text.replace('\r\n', '\n').replace('\r', '\n')
NormalizeLineEndings(s) ==
  Rewrite([i \in 1..Len(s) |->
             IF s[i] = "\r" /\ i < Len(s) /\ s[i + 1] = "\n" THEN <<>>
             ELSE IF s[i] = "\r" THEN <<"\n">> ELSE <<s[i]>>])

\* _sanitize_text, lines 131-153
sanitize_text(s) ==
  strip(NormalizeLineEndings(StripTags(CollapseWhitespace(s))))

IsWordChar(c) ==
  \/ \E i \in 1..26 : c = UpperCs[i] \/ c = LowerCs[i]
  \/ c \in {"0","1","2","3","4","5","6","7","8","9","_"}

\* re.search(r'on\w+\s*=', text, re.IGNORECASE)
MatchesEventHandler(s) ==
  \E i \in 1..Len(s) :
    /\ i + 3 <= Len(s)
    /\ LowerChar(s[i]) = "o"
    /\ LowerChar(s[i + 1]) = "n"
    /\ \E j \in (i + 2)..Len(s), k \in (i + 3)..Len(s) :
         /\ j < k
         /\ \A m \in (i + 2)..j : IsWordChar(s[m])
         /\ \A m \in (j + 1)..(k - 1) : IsSpace(s[m])
         /\ s[k] = "="

P_SCRIPT == <<"<","s","c","r","i","p","t">>
P_JAVASCRIPT == <<"j","a","v","a","s","c","r","i","p","t",":">>
P_DATA_HTML == <<"d","a","t","a",":","t","e","x","t","/","h","t","m","l">>
P_VBSCRIPT == <<"v","b","s","c","r","i","p","t",":">>

\* the scan of suspicious_patterns run on the sanitized text
SuspiciousMessageSanitized(s) ==
  LET t == lower(sanitize_text(s))
  IN IF Contains(t, P_SCRIPT) THEN "HTML script tags not allowed"
     ELSE IF Contains(t, P_JAVASCRIPT) THEN "JavaScript code not allowed"
     ELSE IF Contains(t, P_DATA_HTML) THEN "Data URLs not allowed"
     ELSE IF Contains(t, P_VBSCRIPT) THEN "VBScript not allowed"
     ELSE IF MatchesEventHandler(t) THEN "Event handlers not allowed"
     ELSE ""

\* suspicious_patterns, lines 117-127: the message of the first pattern that
\* matches, "" when none does (every pattern needs a "<", a ":" or a "=")
SuspiciousMessage(s) ==
  IF \A i \in 1..Len(s) : s[i] \notin {"<", ":", "="} THEN ""
  ELSE IF Contains(lower(s), P_SCRIPT) THEN "HTML script tags not allowed"
  ELSE IF Contains(lower(s), P_JAVASCRIPT) THEN "JavaScript code not allowed"
  ELSE IF Contains(lower(s), P_DATA_HTML) THEN "Data URLs not allowed"
  ELSE IF Contains(lower(s), P_VBSCRIPT) THEN "VBScript not allowed"
  ELSE IF MatchesEventHandler(s) THEN "Event handlers not allowed"
  ELSE ""

Rejected(message) == [is_valid |-> FALSE, error_message |-> message, metadata |-> <<>>]

\* _validate_length comparing with >= where the code has >
validate_length_off_by_one(s) ==
  LET text_length == Len(strip(s))
  IN IF text_length < MIN_TEXT_LENGTH
     THEN Rejected("Text too short (minimum 1 characters)")
     ELSE IF text_length >= MAX_TEXT_LENGTH
     THEN Rejected("Text too long (maximum 10000 characters)")
     ELSE [is_valid |-> TRUE, error_message |-> "None",
           metadata |-> [length |-> text_length]]

\* _validate_length measuring the text as passed, without text.strip()
validate_length_untrimmed(s) ==
  LET text_length == Len(s)
  IN IF text_length < MIN_TEXT_LENGTH
     THEN Rejected("Text too short (minimum 1 characters)")
     ELSE IF text_length > MAX_TEXT_LENGTH
     THEN Rejected("Text too long (maximum 10000 characters)")
     ELSE [is_valid |-> TRUE, error_message |-> "None",
           metadata |-> [length |-> text_length]]

\* _validate_length, lines 88-98
validate_length(s) ==
  LET text_length == Len(strip(s))
  IN IF text_length < MIN_TEXT_LENGTH
     THEN Rejected("Text too short (minimum 1 characters)")
     ELSE IF text_length > MAX_TEXT_LENGTH
     THEN Rejected("Text too long (maximum 10000 characters)")
     ELSE [is_valid |-> TRUE, error_message |-> "None",
           metadata |-> [length |-> text_length]]

\* _validate_content with the line check before the word check
validate_content_lines_first(s) ==
  IF strip(s) = <<>> THEN Rejected("Text contains only whitespace")
  ELSE IF LineCount(s) > MAX_LINES
  THEN Rejected("Text contains too many lines (maximum 100)")
  ELSE IF WordCount(s) > MAX_WORDS
  THEN Rejected("Text contains too many words (maximum 2000)")
  ELSE IF SuspiciousMessage(s) # "" THEN Rejected(SuspiciousMessage(s))
  ELSE [is_valid |-> TRUE, error_message |-> "None", metadata |-> <<>>]

\* _validate_content, lines 100-129
validate_content(s) ==
  IF strip(s) = <<>> THEN Rejected("Text contains only whitespace")
  ELSE IF WordCount(s) > MAX_WORDS
  THEN Rejected("Text contains too many words (maximum 2000)")
  ELSE IF LineCount(s) > MAX_LINES
  THEN Rejected("Text contains too many lines (maximum 100)")
  ELSE IF SuspiciousMessage(s) # "" THEN Rejected(SuspiciousMessage(s))
  ELSE [is_valid |-> TRUE, error_message |-> "None", metadata |-> <<>>]

\* html_pattern.search(text)
ContainsHtml(s) == \E i \in 1..Len(s) : s[i] = "<" /\ InTag(s, i)

IsLetter(c) == \E i \in 1..26 : c = UpperCs[i] \/ c = LowerCs[i]
IsDigit(c) == c \in {"0","1","2","3","4","5","6","7","8","9"}

\* the character class of url_pattern, line 35: letters, digits, the range
\* $-_ and the listed punctuation (a %XX escape starts with a % of the range)
IsUrlChar(c) ==
  \/ IsLetter(c) \/ IsDigit(c)
  \/ c \in {"$", "%", "&", "'", "(", ")", "*", "+", ",", "-", ".", "/", ":",
            ";", "<", "=", ">", "?", "@", "[", "\\", "]", "^", "_", "!"}

\* url_pattern.search(text)
ContainsUrl(s) ==
  \E i \in 1..Len(s) :
    \E scheme \in { <<"h","t","t","p",":","/","/">>,
                    <<"h","t","t","p","s",":","/","/">> } :
      /\ i + Len(scheme) <= Len(s)
      /\ SubSeq(s, i, i + Len(scheme) - 1) = scheme
      /\ IsUrlChar(s[i + Len(scheme)])

\* email_pattern.search(text), line 36
ContainsEmail(s) ==
  \E at \in 2..Len(s) :
    /\ s[at] = "@"
    /\ IsLetter(s[at - 1]) \/ IsDigit(s[at - 1])
         \/ s[at - 1] \in {".", "_", "%", "+", "-"}
    /\ \E dot \in (at + 2)..(Len(s) - 2) :
         /\ s[dot] = "."
         /\ \A k \in (at + 1)..(dot - 1) :
              IsLetter(s[k]) \/ IsDigit(s[k]) \/ s[k] \in {".", "-"}
         /\ IsLetter(s[dot + 1])
         /\ IsLetter(s[dot + 2])

\* an argument of validate_text: a str, None, a list (which is no str), or
\* an object whose truth test raises (an array of several elements)
Str(s) == [kind |-> "str", s |-> s]
Truthy(v) == v.kind # "None" /\ v.s # <<>>

\* validate_text without the handler of lines 84-86: an exception raised
\* inside leaves the function
validate_text_unguarded(v) ==
  IF v.kind = "array"
  THEN [is_valid |-> FALSE, error_message |-> "raised ValueError", metadata |-> <<>>]
  ELSE IF ~Truthy(v) THEN Rejected("Text cannot be empty")
  ELSE IF v.kind # "str" THEN Rejected("Text must be a string")
  ELSE IF ~validate_length(v.s).is_valid THEN validate_length(v.s)
  ELSE IF ~validate_content(v.s).is_valid THEN validate_content(v.s)
  ELSE LET sanitized_text == sanitize_text(v.s)
       IN [is_valid |-> TRUE, error_message |-> "None",
           metadata |->
             [original_length |-> Len(v.s),
              sanitized_length |-> Len(sanitized_text),
              length |-> validate_length(v.s).metadata.length,
              word_count |-> WordCount(sanitized_text),
              line_count |-> LineCount(sanitized_text),
              contains_urls |-> ContainsUrl(v.s),
              contains_emails |-> ContainsEmail(v.s),
              contains_html |-> ContainsHtml(v.s)]]

\* validate_text with the three contains_ flags searched in the sanitized text
validate_text_flags_sanitized(v) ==
  IF v.kind = "array"
  THEN Rejected("Validation failed: The truth value of an array is ambiguous")
  ELSE IF ~Truthy(v) THEN Rejected("Text cannot be empty")
  ELSE IF v.kind # "str" THEN Rejected("Text must be a string")
  ELSE IF ~validate_length(v.s).is_valid THEN validate_length(v.s)
  ELSE IF ~validate_content(v.s).is_valid THEN validate_content(v.s)
  ELSE LET sanitized_text == sanitize_text(v.s)
       IN [is_valid |-> TRUE, error_message |-> "None",
           metadata |->
             [original_length |-> Len(v.s),
              sanitized_length |-> Len(sanitized_text),
              length |-> validate_length(v.s).metadata.length,
              word_count |-> WordCount(sanitized_text),
              line_count |-> LineCount(sanitized_text),
              contains_urls |-> ContainsUrl(sanitized_text),
              contains_emails |-> ContainsEmail(sanitized_text),
              contains_html |-> ContainsHtml(sanitized_text)]]

\* validate_text, lines 39-86; "not text" raises for an array, and the
\* handler of lines 84-86 returns the failure
validate_text(v) ==
  IF v.kind = "array"
  THEN Rejected("Validation failed: The truth value of an array is ambiguous")
  ELSE IF ~Truthy(v) THEN Rejected("Text cannot be empty")
  ELSE IF v.kind # "str" THEN Rejected("Text must be a string")
  ELSE IF ~validate_length(v.s).is_valid THEN validate_length(v.s)
  ELSE IF ~validate_content(v.s).is_valid THEN validate_content(v.s)
  ELSE LET sanitized_text == sanitize_text(v.s)
       IN [is_valid |-> TRUE, error_message |-> "None",
           metadata |->
             [original_length |-> Len(v.s),
              sanitized_length |-> Len(sanitized_text),
              length |-> validate_length(v.s).metadata.length,
              word_count |-> WordCount(sanitized_text),
              line_count |-> LineCount(sanitized_text),
              contains_urls |-> ContainsUrl(v.s),
              contains_emails |-> ContainsEmail(v.s),
              contains_html |-> ContainsHtml(v.s)]]

(***************************************************************************)
(* validate_text_input (validators.py, lines 246-270), the check the CLI   *)
(* runs on a text before it calls predict.                                 *)
(***************************************************************************)
INPUT_MAX_LENGTH == 10000

InputRaised(message) == [raised |-> TRUE, error |-> message, value |-> <<>>]
NotChecked == [raised |-> FALSE, error |-> "not called", value |-> <<>>]

\* validate_text_input returning the text as given, without text.strip()
validate_text_input_unstripped(v) ==
  IF ~Truthy(v) THEN InputRaised("ValueError: Text cannot be empty")
  ELSE IF strip(v.s) = <<>>
  THEN InputRaised("ValueError: Text contains only whitespace")
  ELSE IF Len(strip(v.s)) > INPUT_MAX_LENGTH
  THEN InputRaised("ValueError: Text too long (maximum 10,000 characters)")
  ELSE [raised |-> FALSE, error |-> "None", value |-> v.s]

validate_text_input(v) ==
  IF ~Truthy(v) THEN InputRaised("ValueError: Text cannot be empty")
  ELSE LET sanitized == strip(v.s)
       IN IF sanitized = <<>>
          THEN InputRaised("ValueError: Text contains only whitespace")
          ELSE IF Len(sanitized) > INPUT_MAX_LENGTH
          THEN InputRaised("ValueError: Text too long (maximum 10,000 characters)")
          ELSE [raised |-> FALSE, error |-> "None", value |-> sanitized]

(***************************************************************************)
(* The inference backend (Hugging Face pipeline, tokenizer and model): the *)
(* texts callers pass and what a loaded model answers for them.            *)
(***************************************************************************)
PREDICT_MAX_LENGTH == 10000

\* the texts passed to predict; a call holds the index of its text
ServiceTexts ==
  << <<>>,
     <<" ", "\n", " ">>,
     <<" ", "a", "b", " ">>,
     Rep(<<"x">>, PREDICT_MAX_LENGTH + 1),
     <<"a">>,
     <<"b">>,
     <<"a", "b">>,
     Rep(<<"x">>, PREDICT_MAX_LENGTH) >>

TextIds == 1..Len(ServiceTexts)
TextOf(t) == ServiceTexts[t]

L_POSITIVE == <<"P","O","S","I","T","I","V","E">>
L_NEGATIVE == <<"N","E","G","A","T","I","V","E">>
L_LABEL_0 == <<"L","A","B","E","L","_","0">>
L_LABEL_1 == <<"L","A","B","E","L","_","1">>
L_NEUTRAL == <<"N","E","U","T","R","A","L">>

\* what the loaded model answers: the class scores the pipeline returns
\* (results[0]) and the index of the model's largest logit
ModelOutputs ==
  << [scores |-> << [label |-> L_NEGATIVE, score |-> 7996],
                    [label |-> L_POSITIVE, score |-> 92004] >>, argmax |-> 1],
     [scores |-> << [label |-> L_LABEL_0, score |-> 49996],
                    [label |-> L_LABEL_1, score |-> 49996],
                    [label |-> L_NEUTRAL, score |-> 8] >>, argmax |-> 0],
     [scores |-> << [label |-> L_NEGATIVE, score |-> 20003],
                    [label |-> L_NEUTRAL, score |-> 59998],
                    [label |-> L_POSITIVE, score |-> 19999] >>, argmax |-> 1],
     [scores |-> << [label |-> L_NEGATIVE, score |-> 20003],
                    [label |-> L_NEUTRAL, score |-> 19999],
                    [label |-> L_POSITIVE, score |-> 59998] >>, argmax |-> 2] >>

\* the model is a function of the text: its output for the texts predict
\* passes on to it (3, 5, 6, 7 and 8 of ServiceTexts)
BackendOutput(t) ==
  ModelOutputs[IF t = 3 THEN 1 ELSE IF t = 5 THEN 2 ELSE IF t = 6 THEN 3 ELSE 4]



(***************************************************************************)
(* predict, lines 108-123: the entry max(scores, key=score) selects        *)
(***************************************************************************)
\* max() keeping the last of several largest entries instead of the first
MaxScoreIndexLast(scores) ==
  CHOOSE i \in 1..Len(scores) :
    /\ \A j \in 1..Len(scores) : scores[j].score <= scores[i].score
    /\ \A j \in (i + 1)..Len(scores) : scores[j].score < scores[i].score

\* Python's max returns the first of several largest entries
MaxScoreIndex(scores) ==
  CHOOSE i \in 1..Len(scores) :
    /\ \A j \in 1..Len(scores) : scores[j].score <= scores[i].score
    /\ \A j \in 1..(i - 1) : scores[j].score < scores[i].score

(***************************************************************************)
(* _extract_attention_weights, lines 154-233                               *)
(***************************************************************************)
TOP_WORDS == 10
SpecialTokens == {"[CLS]", "[SEP]", "[PAD]"}
label_mapping == (0 :> "negative") @@ (1 :> "positive")

\* tokenizer output and, per attention head of the last layer, the row of
\* the first position; special holds the positions of the start, end and
\* padding tokens of the tokenizer (BERT style, or for text 6, whose model
\* has three classes, RoBERTa style)
Tokenized(t) ==
  IF t = 5
  THEN \* a text of twelve word pieces, several with the same attention
       [tokens |-> <<"[CLS]", "w1", "w2", "w3", "w4", "w5", "w6", "w7", "w8",
                     "w9", "w10", "w11", "w12", "[SEP]">>,
        special |-> {1, 14},
        heads |-> << <<31000, 6000, 10000, 6000, 13004, 3000, 10000, 2000,
                       6003, 8000, 3000, 6000, 9000, 11000>>,
                     <<29000, 4000, 8000, 4000, 11004, 1000, 8000, 0,
                       4003, 6000, 1000, 4000, 7000, 9000>> >>]
  ELSE IF t = 6
  THEN [tokens |-> <<"<s>", "b", "</s>", "<pad>">>,
        special |-> {1, 3, 4},
        heads |-> << <<40000, 30000, 20000, 10000>>,
                     <<20000, 50010, 19990, 10000>> >>]
  ELSE [tokens |-> <<"[CLS]", "a", "b", "[SEP]", "[PAD]">>,
        special |-> {1, 4, 5},
        heads |-> << <<10000, 30000, 30000, 20000, 10000>>,
                     <<30000, 20010, 20010, 19980, 10000>> >>]

\* torch.mean(last_layer_attention, dim=1)[0, 0, :]
ClsAttention(heads) ==
  LET RECURSIVE Sum(_, _)
      Sum(i, k) == IF k = 0 THEN 0 ELSE heads[k][i] + Sum(i, k - 1)
  IN [i \in 1..Len(heads[1]) |-> Sum(i, Len(heads)) \div Len(heads)]

\* a descending sort that puts an entry after the later entries of the same
\* absolute score
RECURSIVE SortByAbsScoreTiesReversed(_)
SortByAbsScoreTiesReversed(ws) ==
  IF ws = <<>> THEN <<>>
  ELSE LET rest == SortByAbsScoreTiesReversed(Tail(ws))
           x == Head(ws)
           k == Cardinality({i \in 1..Len(rest) :
                               \A j \in 1..i : Abs(rest[j].score) >= Abs(x.score)})
       IN SubSeq(rest, 1, k) \o <<x>> \o SubSeq(rest, k + 1, Len(rest))

\* list.sort(key=lambda x: abs(x["score"]), reverse=True): stable
RECURSIVE SortByAbsScore(_)
SortByAbsScore(ws) ==
  IF ws = <<>> THEN <<>>
  ELSE LET rest == SortByAbsScore(Tail(ws))
           x == Head(ws)
           \* x goes before the first entry that is not larger than it
           k == Cardinality({i \in 1..Len(rest) :
                               \A j \in 1..i : Abs(rest[j].score) > Abs(x.score)})
       IN SubSeq(rest, 1, k) \o <<x>> \o SubSeq(rest, k + 1, Len(rest))

EmptyAttention ==
  [attention_weights |-> <<>>, word_contributions |-> <<>>,
   top_contributing_words |-> <<>>]

extract_attention_weights(t, argmax) ==
  LET tk == Tokenized(t)
      cls_attention == ClsAttention(tk.heads)
      kept == SelectSeq([i \in 1..Len(tk.tokens) |-> i],
                        LAMBDA i : tk.tokens[i] \notin SpecialTokens)
  IN IF kept # <<>> /\ argmax \notin DOMAIN label_mapping
     THEN EmptyAttention   \* KeyError, caught at line 227
     ELSE
       LET sentiment_influence ==
             IF kept # <<>> /\ label_mapping[argmax] = "positive" THEN 1 ELSE -1
           word_attention_scores ==
             [n \in 1..Len(kept) |->
                [token |-> tk.tokens[kept[n]],
                 attention_score |-> Round4(cls_attention[kept[n]]),
                 contribution_score |->
                   Round4(cls_attention[kept[n]] * sentiment_influence)]]
           word_contributions ==
             SortByAbsScore(
               [n \in 1..Len(kept) |->
                  [token |-> tk.tokens[kept[n]],
                   score |-> Round4(cls_attention[kept[n]] * sentiment_influence)]])
       IN [attention_weights |-> word_attention_scores,
           word_contributions |-> word_contributions,
           top_contributing_words |->
             SubSeq(word_contributions, 1, Min(TOP_WORDS, Len(word_contributions)))]


(***************************************************************************)
(* The service object and its callers.                                     *)
(*   A handle (pipeline, tokenizer, model) is 0 for None and otherwise the *)
(*   caller whose run of _initialize_pipeline created the object.          *)
(***************************************************************************)
VARIABLES
  v_input,            \* the argument of validate_text / _sanitize_text
  v_result,           \* what validate_text returned for it
  s_runs,             \* _sanitize_text applied to it once, twice, ...
  label_in,           \* the argument of _map_sentiment_label
  label_out,          \* what _map_sentiment_label returned for it
  input_out           \* what validate_text_input returned or raised for v_input

pvars == <<v_input, v_result, s_runs, label_in, label_out, input_out>>

\* the batch command of the CLI (apps/ml_pipeline/cli.py)
VARIABLES
  cli_file,           \* the pieces content.split(delimiter) gives (indexes in ServiceTexts)
  cli_texts,          \* texts: the stripped non-blank pieces
  cli_i,              \* i of the loop over texts
  cli_results,        \* results
  cli_warnings,       \* the i of each "Warning: Failed to process text {i}"
  cli_exit,           \* the exit code, -1 while the command runs
  cli_message,        \* the error the command ends with
  cli_pc              \* the position in batch

cvars == <<cli_file, cli_texts, cli_i, cli_results, cli_warnings, cli_exit,
           cli_message, cli_pc>>

\* the Streamlit session: the list PredictionHistory keeps
\* (ui_components/prediction_history.py) and the list of the web app
\* (apps/web/app.py).  Of an entry of prediction_history the model keeps the
\* id and the timestamp, the clock being the number of the call; of an entry
\* of analysis_history it keeps the id.
VARIABLES
  prediction_history, \* st.session_state.prediction_history
  added,              \* calls of add_prediction so far
  analysis_history,   \* st.session_state.analysis_history
  analyses,           \* runs of perform_sentiment_analysis so far
  web_pc,             \* the position in perform_sentiment_analysis
  web_message         \* what the run told the user last

hvars == <<prediction_history, added, analysis_history, analyses, web_pc,
           web_message>>

HISTORY_LIMIT == 50
ANALYSIS_LIMIT == 10
WEB_MAX_LENGTH == 1000

\* initialize_session_state: prediction_history.py lines 31-32, app.py
\* lines 152-153
HistoryInit ==
  /\ prediction_history = <<>>
  /\ added = 0
  /\ analysis_history = <<>>
  /\ analyses = 0
  /\ web_pc = "idle"
  /\ web_message = ""

\* no batch command runs
CliIdle ==
  /\ cli_file = <<>>
  /\ cli_texts = <<>>
  /\ cli_i = 0
  /\ cli_results = <<>>
  /\ cli_warnings = <<>>
  /\ cli_exit = -1
  /\ cli_message = ""
  /\ cli_pc = "idle"

VARIABLES
  is_initialized,     \* self._is_initialized
  pipeline,           \* self.pipeline
  tokenizer,          \* self.tokenizer
  model,              \* self.model
  init_calls,         \* runs of _initialize_pipeline started (mock call count)
  init_failed,        \* a run of _initialize_pipeline has raised
  calls,              \* predict calls started
  pc,                 \* per caller: its position in predict
  text,               \* per caller: the text argument (index in ServiceTexts)
  include_attention,  \* per caller: the include_attention argument
  entry,              \* the service state when the sequential caller's latest call started
  result,             \* per caller: what the last predict returned
  error               \* per caller: what the last predict raised

Callers == 1..NumCallers

NoResult == [returned |-> FALSE]
NoError == "none"
E_EMPTY == "ValueError: Input text cannot be empty"
E_TOO_LONG == "ValueError: Input text too long (max 10,000 characters)"
E_INIT == "RuntimeError: Pipeline initialization failed"
E_BACKEND == "Exception raised by the backend"
E_NONE_CALL == "TypeError: 'NoneType' object is not callable"

InInit == {"create_pipeline", "load_tokenizer", "load_model", "set_flag"}
Finished == {"idle", "returned", "raised"}

ServiceState == [is_initialized |-> is_initialized, pipeline |-> pipeline,
                 tokenizer |-> tokenizer, model |-> model]

svars == <<is_initialized, pipeline, tokenizer, model, init_calls,
           init_failed, calls, pc, text, include_attention, entry, result, error>>

\* __init__, lines 36-40
ServiceInit ==
  /\ is_initialized = FALSE
  /\ pipeline = 0
  /\ tokenizer = 0
  /\ model = 0
  /\ init_calls = 0
  /\ init_failed = FALSE
  /\ calls = 0
  /\ pc = [p \in Callers |-> "idle"]
  /\ text = [p \in Callers |-> 1]
  /\ include_attention = [p \in Callers |-> FALSE]
  /\ entry = ServiceState
  /\ result = [p \in Callers |-> NoResult]
  /\ error = [p \in Callers |-> NoError]

\* a caller invokes predict(text, include_attention), line 91
predict_call(p, t, a) ==
  /\ pc[p] \in Finished
  /\ calls < MaxCalls
  /\ calls' = calls + 1
  /\ pc' = [pc EXCEPT ![p] = "check_init"]
  /\ text' = [text EXCEPT ![p] = t]
  /\ include_attention' = [include_attention EXCEPT ![p] = a]
  /\ result' = [result EXCEPT ![p] = NoResult]
  /\ error' = [error EXCEPT ![p] = NoError]
  /\ UNCHANGED <<pvars, is_initialized, pipeline, tokenizer, model,
                 init_calls, init_failed>>

\* the exception handlers of lines 70-72 and 149-152: the call raises
Raise(p, e) ==
  /\ pc' = [pc EXCEPT ![p] = "raised"]
  /\ error' = [error EXCEPT ![p] = e]

\* get_model_info, lines 255-271: what it returns in the current state
get_model_info ==
  IF ~is_initialized THEN [status |-> "not_initialized"]
  ELSE [status |-> "initialized", model_type |-> "DistilBERT",
        framework |-> "PyTorch"]

\* the test of line 95 made on the pipeline handle instead of the flag
check_initialized_by_pipeline(p) ==
  /\ pc[p] = "check_init"
  /\ IF pipeline = 0
     THEN /\ init_calls' = init_calls + 1
          /\ pc' = [pc EXCEPT ![p] = "create_pipeline"]
     ELSE /\ pc' = [pc EXCEPT ![p] = "validate"]
          /\ UNCHANGED init_calls
  /\ UNCHANGED <<pvars, cvars, hvars, is_initialized, pipeline, tokenizer, model,
                 init_failed, calls, text, include_attention,
                 entry, result, error>>

\* lines 95-96: if not self._is_initialized: self._initialize_pipeline()
check_initialized(p) ==
  /\ pc[p] = "check_init"
  /\ IF ~is_initialized
     THEN /\ init_calls' = init_calls + 1
          /\ pc' = [pc EXCEPT ![p] = "create_pipeline"]
     ELSE /\ pc' = [pc EXCEPT ![p] = "validate"]
          /\ UNCHANGED init_calls
  /\ UNCHANGED <<pvars, cvars, hvars, is_initialized, pipeline, tokenizer, model,
                 init_failed, calls, text, include_attention,
                 entry, result, error>>

\* create_pipeline setting the flag as soon as the pipeline is there
create_pipeline_setting_flag(p) ==
  /\ pc[p] = "create_pipeline"
  /\ \/ /\ pipeline' = p
        /\ is_initialized' = TRUE
        /\ pc' = [pc EXCEPT ![p] = "load_tokenizer"]
        /\ UNCHANGED <<init_failed, error>>
     \/ /\ Raise(p, E_INIT)
        /\ init_failed' = TRUE
        /\ UNCHANGED <<pipeline, is_initialized>>
  /\ UNCHANGED <<pvars, cvars, hvars, tokenizer, model, init_calls,
                 calls, text, include_attention,
                 entry, result>>

\* lines 56-61: self.pipeline = pipeline(...), which may raise
create_pipeline(p) ==
  /\ pc[p] = "create_pipeline"
  /\ \/ /\ pipeline' = p
        /\ pc' = [pc EXCEPT ![p] = "load_tokenizer"]
        /\ UNCHANGED <<init_failed, error>>
     \/ /\ Raise(p, E_INIT)
        /\ init_failed' = TRUE
        /\ UNCHANGED pipeline
  /\ UNCHANGED <<pvars, cvars, hvars, is_initialized, tokenizer, model, init_calls,
                 calls, text, include_attention,
                 entry, result>>

\* line 64: self.tokenizer = AutoTokenizer.from_pretrained(...)
load_tokenizer(p) ==
  /\ pc[p] = "load_tokenizer"
  /\ \/ /\ tokenizer' = p
        /\ pc' = [pc EXCEPT ![p] = "load_model"]
        /\ UNCHANGED <<init_failed, error>>
     \/ /\ Raise(p, E_INIT)
        /\ init_failed' = TRUE
        /\ UNCHANGED tokenizer
  /\ UNCHANGED <<pvars, cvars, hvars, is_initialized, pipeline, model, init_calls,
                 calls, text, include_attention,
                 entry, result>>

\* line 65: self.model = AutoModelForSequenceClassification.from_pretrained(...)
load_model(p) ==
  /\ pc[p] = "load_model"
  /\ \/ /\ model' = p
        /\ pc' = [pc EXCEPT ![p] = "set_flag"]
        /\ UNCHANGED <<init_failed, error>>
     \/ /\ Raise(p, E_INIT)
        /\ init_failed' = TRUE
        /\ UNCHANGED model
  /\ UNCHANGED <<pvars, cvars, hvars, is_initialized, pipeline, tokenizer, init_calls,
                 calls, text, include_attention,
                 entry, result>>

\* line 67: self._is_initialized = True
set_initialized(p) ==
  /\ pc[p] = "set_flag"
  /\ is_initialized' = TRUE
  /\ pc' = [pc EXCEPT ![p] = "validate"]
  /\ UNCHANGED <<pvars, cvars, hvars, pipeline, tokenizer, model, init_calls, init_failed,
                 calls, text, include_attention,
                 entry, result, error>>

\* an input check that also refuses a text of exactly the maximum length
InputErrorAtLimit(s) ==
  IF s = <<>> \/ strip(s) = <<>> THEN E_EMPTY
  ELSE IF Len(s) >= PREDICT_MAX_LENGTH THEN E_TOO_LONG
  ELSE NoError

\* lines 99-103: predict's own input check
InputError(s) ==
  IF s = <<>> \/ strip(s) = <<>> THEN E_EMPTY
  ELSE IF Len(s) > PREDICT_MAX_LENGTH THEN E_TOO_LONG
  ELSE NoError

\* InputError of each text of ServiceTexts
InputErrorOf == [t \in TextIds |-> InputError(TextOf(t))]

validate_input(p) ==
  /\ pc[p] = "validate"
  /\ IF InputErrorOf[text[p]] # NoError
     THEN Raise(p, InputErrorOf[text[p]])
     ELSE /\ pc' = [pc EXCEPT ![p] = "classify"]
          /\ UNCHANGED error
  /\ UNCHANGED <<pvars, cvars, hvars, is_initialized, pipeline, tokenizer, model,
                 init_calls, init_failed, calls, text,
                 include_attention, entry, result>>


\* lines 108-123 and 134-140: the response built from the backend's results
base_result(results, s) ==
  LET chosen == IF results # <<>> /\ Len(results) > 0
                THEN LET scores == results[1]
                         max_score == scores[MaxScoreIndex(scores)]
                     IN [label |-> map_sentiment_label(max_score.label),
                         score |-> max_score.score]
                ELSE [label |-> "neutral", score |-> 50000]
  IN [returned |-> FALSE,
      sentiment_label |-> chosen.label,
      confidence_score |-> Round4(chosen.score),
      model_confidence |-> results,
      input_text_length |-> Len(s),
      has_attention |-> FALSE,
      attention |-> EmptyAttention]

\* self.pipeline(text) with return_all_scores=True, line 106
pipeline_call(t) == << BackendOutput(t).scores >>

\* classify with an error handler that drops the pipeline when the backend
\* raises
classify_reset_on_error(p) ==
  /\ pc[p] = "classify"
  /\ IF pipeline = 0
     THEN /\ Raise(p, E_NONE_CALL)
          /\ UNCHANGED <<is_initialized, pipeline, result>>
     ELSE \/ /\ Raise(p, E_BACKEND)
             /\ is_initialized' = FALSE
             /\ pipeline' = 0
             /\ UNCHANGED result
          \/ /\ error' = error
             /\ UNCHANGED <<is_initialized, pipeline>>
             /\ LET r == base_result(pipeline_call(text[p]), TextOf(text[p]))
                IN IF include_attention[p]
                   THEN /\ result' = [result EXCEPT ![p] = r]
                        /\ pc' = [pc EXCEPT ![p] = "attention"]
                   ELSE /\ result' = [result EXCEPT ![p] =
                                        [r EXCEPT !.returned = TRUE]]
                        /\ pc' = [pc EXCEPT ![p] = "returned"]
  /\ UNCHANGED <<pvars, cvars, hvars, tokenizer, model,
                 init_calls, init_failed, calls, text, include_attention, entry>>

\* lines 106-123, and through to the return of line 147 when no attention
\* is requested
classify(p) ==
  /\ pc[p] = "classify"
  /\ IF pipeline = 0
     THEN /\ Raise(p, E_NONE_CALL)
          /\ UNCHANGED result
     ELSE \/ /\ Raise(p, E_BACKEND)
             /\ UNCHANGED result
          \/ /\ error' = error
             /\ LET r == base_result(pipeline_call(text[p]), TextOf(text[p]))
                IN IF include_attention[p]
                   THEN /\ result' = [result EXCEPT ![p] = r]
                        /\ pc' = [pc EXCEPT ![p] = "attention"]
                   ELSE /\ result' = [result EXCEPT ![p] =
                                        [r EXCEPT !.returned = TRUE]]
                        /\ pc' = [pc EXCEPT ![p] = "returned"]
  /\ UNCHANGED <<pvars, cvars, hvars, is_initialized, pipeline, tokenizer, model,
                 init_calls, init_failed, calls, text, include_attention, entry>>

\* extract_attention where a failed extraction also degrades the prediction
\* to the fallback of lines 122-123
extract_attention_degrading(p) ==
  /\ pc[p] = "attention"
  /\ \E failed \in BOOLEAN :
       LET argmax == BackendOutput(text[p]).argmax
           data == IF failed \/ tokenizer = 0 \/ model = 0
                   THEN EmptyAttention
                   ELSE extract_attention_weights(text[p], argmax)
       IN result' = [result EXCEPT ![p] =
                       IF data = EmptyAttention
                       THEN [@ EXCEPT !.returned = TRUE, !.has_attention = TRUE,
                                      !.attention = data,
                                      !.sentiment_label = "neutral",
                                      !.confidence_score = 50000]
                       ELSE [@ EXCEPT !.returned = TRUE, !.has_attention = TRUE,
                                      !.attention = data]]
  /\ pc' = [pc EXCEPT ![p] = "returned"]
  /\ UNCHANGED <<pvars, cvars, hvars, is_initialized, pipeline, tokenizer, model,
                 init_calls, init_failed, calls, text,
                 include_attention, entry, error>>

\* extract_attention without the handler of line 227: a failed extraction
\* ends the call with the exception
extract_attention_propagating(p) ==
  /\ pc[p] = "attention"
  /\ \E failed \in BOOLEAN :
       LET argmax == BackendOutput(text[p]).argmax
           data == IF failed \/ tokenizer = 0 \/ model = 0
                   THEN EmptyAttention
                   ELSE extract_attention_weights(text[p], argmax)
       IN IF data = EmptyAttention
          THEN /\ Raise(p, "Exception raised by the attention extraction")
               /\ UNCHANGED result
          ELSE /\ result' = [result EXCEPT ![p] =
                               [@ EXCEPT !.returned = TRUE, !.has_attention = TRUE,
                                         !.attention = data]]
               /\ pc' = [pc EXCEPT ![p] = "returned"]
               /\ UNCHANGED error
  /\ UNCHANGED <<pvars, cvars, hvars, is_initialized, pipeline, tokenizer, model,
                 init_calls, init_failed, calls, text,
                 include_attention, entry>>

\* lines 127-128 and 143-147: attention_data = self._extract_attention_weights(text),
\* whose handler (line 227) turns any exception into empty lists
extract_attention(p) ==
  /\ pc[p] = "attention"
  /\ \E failed \in BOOLEAN :
       LET argmax == BackendOutput(text[p]).argmax
           data == IF failed \/ tokenizer = 0 \/ model = 0
                   THEN EmptyAttention
                   ELSE extract_attention_weights(text[p], argmax)
       IN result' = [result EXCEPT ![p] =
                       [@ EXCEPT !.returned = TRUE, !.has_attention = TRUE,
                                 !.attention = data]]
  /\ pc' = [pc EXCEPT ![p] = "returned"]
  /\ UNCHANGED <<pvars, cvars, hvars, is_initialized, pipeline, tokenizer, model,
                 init_calls, init_failed, calls, text,
                 include_attention, entry, error>>

(***************************************************************************)
(* TextValidator and the label mapper called on their own.                 *)
(***************************************************************************)
Pieces ==
  { <<"a">>, <<" ">>, <<"\n">>, <<"<">>, <<">">>, <<"<", "b", ">">> }

PieceTexts ==
  {Flatten(ps) : ps \in UNION {[1..n -> Pieces] : n \in 0..MaxPieces}}

\* texts at the limits of the validator
LimitTexts ==
  { Rep(<<"x">>, MAX_TEXT_LENGTH),
    Rep(<<"x">>, MAX_TEXT_LENGTH + 1),
    <<" ">> \o Rep(<<"x">>, MAX_TEXT_LENGTH) \o <<"\n">>,
    Rep(<<"a", " ">>, MAX_WORDS),
    Rep(<<"a", " ">>, MAX_WORDS + 1),
    Rep(<<"a", "\n">>, MAX_LINES),
    Rep(<<"a", "\n">>, MAX_LINES + 1),
    Rep(<<"a", "\n">>, MAX_WORDS + 1),
    Rep(<<"a", " ">>, MAX_WORDS - MAX_LINES) \o Rep(<<"a", "\n">>, MAX_LINES),
    P_SCRIPT \o <<">">>,
    P_JAVASCRIPT \o <<"a">>,
    <<"O", "n", "a", " ", "=">>,
    <<"a", "\r", "\n", "\r", "b", "\r">>,
    <<"\t", "\r", "\n">>,
    <<"h","t","t","p","s",":","/","/","a",".","c","o"," ","<","b",">">>,
    <<"a","@","b",".","c","o">> }

\* texts with suspicious patterns, several at once, and texts close to one
PatternTexts ==
  { <<"o","n","x"," ","=","v","b","s","c","r","i","p","t",":","d","a","t","a",":","t","e","x","t","/","h","t","m","l"," ","j","a","v","a","s","c","r","i","p","t",":","<","S","C","R","I","P","T">>,
    <<"v","b","s","c","r","i","p","t",":"," ","J","a","v","a","S","c","r","i","p","t",":">>,
    <<"v","b","s","c","r","i","p","t",":"," ","D","a","t","a",":","T","e","x","t","/","h","t","m","l">>,
    <<"o","n","c","l","i","c","k","=","v","b","s","c","r","i","p","t",":">>,
    <<"O","N","L","O","A","D","\t","="," ","1">>,
    <<"o","n"," ","=">>,
    <<"j","a","v","a","<","b",">","s","c","r","i","p","t",":">>,
    <<"d","a","t","a",":","t","e","x","t","/","h","t","m","l">>,
    <<"V","B","S","c","r","i","p","t",":","x">>,
    <<"<","b",">","o","n","x","=","<","/","b",">">>,
    Rep(<<"a", "\n">>, MAX_LINES + 1) \o P_SCRIPT }

\* texts whose sanitized form differs from them in a URL, an e-mail address,
\* a tag, the words or the lines
MetadataTexts ==
  { <<"<","a","@","b",".","c","o",">">>,
    <<"<","h","t","t","p",":","/","/","a",".","c","o",">">>,
    <<"h","t","t","p",":","/","<","b",">","/","a">>,
    <<"a","@","<","i",">","b",".","c","o">>,
    <<" ","a"," ","<","b",">","b","<","/","b",">","\n","c"," ">>,
    <<"a","<","b"," ","c",">","d">>,
    <<" ","a"," ","<","b"," ","c",">"," ","d"," ">>,
    <<"a","\r","\n","b","\r","c","\n","\n","d">> }

None == [kind |-> "None", s |-> <<>>]

ValidatorInputs ==
  {Str(s) : s \in PieceTexts \cup LimitTexts \cup PatternTexts \cup MetadataTexts}
    \cup {None, [kind |-> "list", s |-> <<>>], [kind |-> "list", s |-> <<"a">>],
          [kind |-> "array", s |-> <<"a", "b">>]}

NotValidated == [is_valid |-> FALSE, error_message |-> "not called", metadata |-> <<>>]

PureIdle ==
  /\ v_input = Str(<<>>)
  /\ v_result = NotValidated
  /\ s_runs = <<>>
  /\ label_in = <<>>
  /\ label_out = "not called"
  /\ input_out = NotChecked

\* validator.validate_text(text)
validate_text_call ==
  /\ v_result = NotValidated
  /\ v_result' = validate_text(v_input)
  /\ UNCHANGED <<svars, cvars, hvars, v_input, s_runs, label_in, label_out, input_out>>

\* validator._sanitize_text(text), then again on what it returned
sanitize_text_call ==
  /\ v_input.kind = "str"
  /\ Len(s_runs) < 2
  /\ s_runs' = Append(s_runs, sanitize_text(IF s_runs = <<>> THEN v_input.s
                                           ELSE s_runs[Len(s_runs)]))
  /\ UNCHANGED <<svars, cvars, hvars, v_input, v_result, label_in, label_out, input_out>>

InitValidator ==
  /\ ServiceInit
  /\ CliIdle
  /\ HistoryInit
  /\ v_input \in ValidatorInputs
  /\ v_result = NotValidated
  /\ s_runs = <<>>
  /\ label_in = <<>>
  /\ label_out = "not called"
  /\ input_out = NotChecked

NextValidator == validate_text_call \/ sanitize_text_call

\* validate_text_input(text)
validate_text_input_call ==
  /\ input_out = NotChecked
  /\ input_out' = validate_text_input(v_input)
  /\ UNCHANGED <<svars, cvars, hvars, v_input, v_result, s_runs, label_in, label_out>>

\* the texts validate_text_input is called with: a str or None
InitInput ==
  /\ ServiceInit
  /\ CliIdle
  /\ HistoryInit
  /\ v_input \in {v \in ValidatorInputs : v.kind \in {"str", "None"}}
  /\ v_result = NotValidated
  /\ s_runs = <<>>
  /\ label_in = <<>>
  /\ label_out = "not called"
  /\ input_out = NotChecked

NextInput == validate_text_input_call

LabelChars == {"p", "o", "s", "P", "n", "e", "g", "1", "0", "x"}

LabelInputs ==
  UNION {[1..n -> LabelChars] : n \in 0..MaxLabelLen}
    \cup {L_POSITIVE, L_NEGATIVE, L_LABEL_0, L_LABEL_1, L_NEUTRAL,
          <<"U","N","K","N","O","W","N">>,
          <<"p","o","s","_","o","r","_","n","e","g">>,
          <<"P","O","S","_","0">>}

\* pipeline._map_sentiment_label(model_label)
map_sentiment_label_call ==
  /\ label_out = "not called"
  /\ label_out' = map_sentiment_label(label_in)
  /\ UNCHANGED <<svars, cvars, hvars, v_input, v_result, s_runs, label_in, input_out>>

InitLabel ==
  /\ ServiceInit
  /\ CliIdle
  /\ HistoryInit
  /\ v_input = Str(<<>>)
  /\ v_result = NotValidated
  /\ s_runs = <<>>
  /\ label_in \in LabelInputs
  /\ label_out = "not called"
  /\ input_out = NotChecked

NextLabel == map_sentiment_label_call

vars == <<svars, pvars, cvars, hvars>>

Init == ServiceInit /\ PureIdle /\ CliIdle /\ HistoryInit

\* the steps of predict, one caller at a time
PredictStep(p) ==
  \/ check_initialized(p)
  \/ create_pipeline(p)
  \/ load_tokenizer(p)
  \/ load_model(p)
  \/ set_initialized(p)
  \/ validate_input(p)
  \/ classify(p)
  \/ extract_attention(p)

\* a call by the one caller, who notes the state of the service it calls
sequential_call(p, t, a) ==
  predict_call(p, t, a) /\ entry' = ServiceState /\ UNCHANGED <<cvars, hvars>>

\* one caller processing texts one after the other (as the CLI and the web
\* app do)
Next ==
  \/ \E t \in TextIds, a \in BOOLEAN : sequential_call(1, t, a)
  \/ PredictStep(1)

Spec == Init /\ [][Next]_vars

\* several threads sharing the service object, each making one call; they
\* pass an empty text or the accepted one
ConcurrentInputs == {<<1, FALSE>>, <<3, FALSE>>, <<3, TRUE>>}

\* a thread's one call of predict
first_call(p, t, a) ==
  pc[p] = "idle" /\ predict_call(p, t, a) /\ UNCHANGED <<entry, cvars, hvars>>

NextConcurrent ==
  \E p \in Callers :
    \/ \E in \in ConcurrentInputs : first_call(p, in[1], in[2])
    \/ PredictStep(p)

SpecConcurrent == Init /\ [][NextConcurrent]_vars

SpecValidator == InitValidator /\ [][NextValidator]_vars

SpecLabel == InitLabel /\ [][NextLabel]_vars

SpecInput == InitInput /\ [][NextInput]_vars

(***************************************************************************)
(* The histories of the Streamlit session.                                 *)
(***************************************************************************)
\* add_prediction removing the newest entry when the list is full
add_prediction_dropping_newest ==
  /\ analyses = 0
  /\ added < MaxAdds
  /\ added' = added + 1
  /\ LET prediction_entry == [id |-> Len(prediction_history) + 1,
                               timestamp |-> added + 1]
         appended == Append(prediction_history, prediction_entry)
     IN prediction_history' =
          IF Len(appended) > HISTORY_LIMIT
          THEN SubSeq(appended, 1, Len(appended) - 1)
          ELSE appended
  /\ UNCHANGED <<svars, pvars, cvars, analysis_history, analyses, web_pc,
                 web_message>>

\* PredictionHistory.add_prediction, lines 42-66; the page of app.py never
\* calls it, so it is called in sessions in which no analysis of the page ran
add_prediction ==
  /\ analyses = 0
  /\ added < MaxAdds
  /\ added' = added + 1
  /\ LET prediction_entry == [id |-> Len(prediction_history) + 1,
                               timestamp |-> added + 1]
         appended == Append(prediction_history, prediction_entry)
     IN prediction_history' =
          IF Len(appended) > HISTORY_LIMIT THEN Tail(appended) ELSE appended
  /\ UNCHANGED <<svars, pvars, cvars, analysis_history, analyses, web_pc,
                 web_message>>

\* the texts the page passes to perform_sentiment_analysis (stripped and not
\* blank, app.py lines 253-254): "ab", a text of 10000 characters and one of
\* 10001 characters
WebTexts == {7, 8, 4}

\* app.py lines 485 and 492 for each of them: validate_text(text) and
\* len(text) > 1000
WebChecks ==
  {[text |-> t,
    is_valid |-> validate_text(Str(TextOf(t))).is_valid,
    too_long |-> Len(TextOf(t)) > WEB_MAX_LENGTH] : t \in WebTexts}

\* perform_sentiment_analysis, app.py lines 481-501: the checks and the call
\* of predict
web_analyze ==
  /\ web_pc = "idle"
  /\ added = 0
  /\ analyses < MaxAnalyses
  /\ analyses' = analyses + 1
  /\ \E c \in WebChecks, a \in BOOLEAN :
       IF ~c.is_valid
       THEN /\ web_message' = "Input validation failed"
            /\ UNCHANGED <<svars, web_pc>>
       ELSE IF c.too_long
       THEN /\ web_message' = "Text too long. Maximum 1000 characters allowed for web interface."
            /\ UNCHANGED <<svars, web_pc>>
       ELSE /\ pc[1] \in Finished
            /\ pc' = [pc EXCEPT ![1] = "check_init"]
            /\ text' = [text EXCEPT ![1] = c.text]
            /\ include_attention' = [include_attention EXCEPT ![1] = a]
            /\ result' = [result EXCEPT ![1] = NoResult]
            /\ error' = [error EXCEPT ![1] = NoError]
            /\ entry' = ServiceState
            /\ web_pc' = "predict"
            /\ web_message' = ""
            /\ UNCHANGED <<is_initialized, pipeline, tokenizer, model,
                           init_calls, init_failed, calls>>
  /\ UNCHANGED <<pvars, cvars, prediction_history, added, analysis_history>>

\* perform_sentiment_analysis, app.py lines 503-527: predict has returned
\* (the entry is appended and the list cut to its last 10) or raised
web_store ==
  /\ web_pc = "predict"
  /\ pc[1] \in {"returned", "raised"}
  /\ IF pc[1] = "returned"
     THEN /\ LET analysis_entry == [id |-> Len(analysis_history) + 1]
                 appended == Append(analysis_history, analysis_entry)
             IN analysis_history' =
                  IF Len(appended) > ANALYSIS_LIMIT THEN Tail(appended)
                  ELSE appended
          /\ web_message' = "Analysis completed successfully!"
     ELSE /\ web_message' = "Analysis failed"
          /\ UNCHANGED analysis_history
  /\ web_pc' = "idle"
  /\ UNCHANGED <<svars, pvars, cvars, prediction_history, added, analyses>>

NextHistory ==
  \/ add_prediction
  \/ web_analyze
  \/ PredictStep(1)
  \/ web_store

SpecHistory == Init /\ [][NextHistory]_vars

(***************************************************************************)
(* The batch command, cli.py lines 119-181: one pipeline object, the texts *)
(* of the file processed one after the other.                              *)
(***************************************************************************)
\* the text of ServiceTexts that is text t stripped
StripIdOf ==
  [t \in TextIds |-> CHOOSE u \in TextIds : TextOf(u) = strip(TextOf(t))]

\* validate_text_input of each text of ServiceTexts
InputCheckOf == [t \in TextIds |-> validate_text_input(Str(TextOf(t)))]

\* the pieces a file is made of: whitespace only, " ab ", a text of 10001
\* characters, "a"
BatchPieces == {2, 3, 4, 5}

\* the files: at least one piece, and no more pieces than calls of predict
BatchFiles == UNION {[1..n -> BatchPieces] : n \in 1..MaxCalls}

\* line 144: [text.strip() for text in content.split(delimiter) if text.strip()]
TextsOf(file) ==
  LET kept == SelectSeq(file, LAMBDA t : strip(TextOf(t)) # <<>>)
  IN [k \in 1..Len(kept) |-> StripIdOf[kept[k]]]

InitBatch ==
  /\ ServiceInit
  /\ PureIdle
  /\ HistoryInit
  /\ cli_file \in BatchFiles
  /\ cli_texts = <<>>
  /\ cli_i = 0
  /\ cli_results = <<>>
  /\ cli_warnings = <<>>
  /\ cli_exit = -1
  /\ cli_message = ""
  /\ cli_pc = "read"

\* lines 140-151: read the texts; without texts the command exits with 1
batch_read ==
  /\ cli_pc = "read"
  /\ cli_texts' = TextsOf(cli_file)
  /\ IF TextsOf(cli_file) = <<>>
     THEN /\ cli_message' = "Error: No valid texts found"
          /\ cli_exit' = 1
          /\ cli_pc' = "exited"
          /\ UNCHANGED cli_i
     ELSE /\ cli_i' = 1
          /\ cli_pc' = "loop"
          /\ UNCHANGED <<cli_message, cli_exit>>
  /\ UNCHANGED <<svars, pvars, hvars, cli_file, cli_results, cli_warnings>>

\* lines 158-161 and 165-167: validate_text_input(text); when it raises, the
\* warning and the next text, otherwise the call of pipeline.predict
batch_item ==
  /\ cli_pc = "loop"
  /\ cli_i <= Len(cli_texts)
  /\ IF InputCheckOf[cli_texts[cli_i]].raised
     THEN /\ cli_warnings' = Append(cli_warnings, cli_i)
          /\ cli_i' = cli_i + 1
          /\ UNCHANGED <<svars, cli_pc>>
     ELSE /\ predict_call(1, StripIdOf[cli_texts[cli_i]], FALSE)
          /\ entry' = ServiceState
          /\ cli_pc' = "predict"
          /\ UNCHANGED <<cli_i, cli_warnings>>
  /\ UNCHANGED <<pvars, hvars, cli_file, cli_texts, cli_results, cli_exit,
                 cli_message>>

\* batch_collect numbering a result by its place in results
batch_collect_renumbering ==
  /\ cli_pc = "predict"
  /\ pc[1] \in {"returned", "raised"}
  /\ IF pc[1] = "returned"
     THEN /\ cli_results' =
               Append(cli_results,
                      [text_index |-> Len(cli_results) + 1,
                       input_text |-> cli_texts[cli_i],
                       sentiment_label |-> result[1].sentiment_label,
                       confidence_score |-> result[1].confidence_score])
          /\ UNCHANGED cli_warnings
     ELSE /\ cli_warnings' = Append(cli_warnings, cli_i)
          /\ UNCHANGED cli_results
  /\ cli_i' = cli_i + 1
  /\ cli_pc' = "loop"
  /\ UNCHANGED <<svars, pvars, hvars, cli_file, cli_texts, cli_exit, cli_message>>

\* lines 161-167: predict has returned (the result is tagged and kept) or
\* raised (the warning), and the loop goes on
batch_collect ==
  /\ cli_pc = "predict"
  /\ pc[1] \in {"returned", "raised"}
  /\ IF pc[1] = "returned"
     THEN /\ cli_results' =
               Append(cli_results,
                      [text_index |-> cli_i,
                       input_text |-> cli_texts[cli_i],
                       sentiment_label |-> result[1].sentiment_label,
                       confidence_score |-> result[1].confidence_score])
          /\ UNCHANGED cli_warnings
     ELSE /\ cli_warnings' = Append(cli_warnings, cli_i)
          /\ UNCHANGED cli_results
  /\ cli_i' = cli_i + 1
  /\ cli_pc' = "loop"
  /\ UNCHANGED <<svars, pvars, hvars, cli_file, cli_texts, cli_exit, cli_message>>

\* lines 169-181: after the loop; display_batch_results may raise (the
\* output file cannot be written), which the handler of line 179 turns into
\* exit code 1
batch_finish ==
  /\ cli_pc = "loop"
  /\ cli_i > Len(cli_texts)
  /\ IF cli_results = <<>>
     THEN /\ cli_message' = "Error: No texts were successfully processed"
          /\ cli_exit' = 1
     ELSE \/ /\ cli_message' = ""
             /\ cli_exit' = 0
          \/ /\ cli_message' = "Error: the results could not be written"
             /\ cli_exit' = 1
  /\ cli_pc' = "exited"
  /\ UNCHANGED <<svars, pvars, hvars, cli_file, cli_texts, cli_i, cli_results,
                 cli_warnings>>

\* predict is called without include_attention (line 160), so the steps of
\* the call are those of PredictStep up to classify
NextBatch ==
  \/ batch_read
  \/ batch_item
  \/ check_initialized(1)
  \/ create_pipeline(1)
  \/ load_tokenizer(1)
  \/ load_model(1)
  \/ set_initialized(1)
  \/ validate_input(1)
  \/ classify(1)
  \/ batch_collect
  \/ batch_finish

SpecBatch == InitBatch /\ [][NextBatch]_vars

(***************************************************************************)
(* Properties                                                              *)
(***************************************************************************)
Returned(p) == pc[p] = "returned"
Failed(p, errors) == pc[p] = "raised" /\ error[p] \in errors
InferenceErrors == {E_EMPTY, E_TOO_LONG, E_BACKEND}
\* the service after caller 1 has initialized it
ReadyState == [is_initialized |-> TRUE, pipeline |-> 1, tokenizer |-> 1, model |-> 1]

\* C1: concurrent first calls on a fresh service run the backend load of
\* _initialize_pipeline once (a second run starts only after a failed one),
\* and calls that return for the same text return the same label and
\* confidence.
C1_ExactlyOnceLoad ==
  /\ init_failed \/ init_calls <= 1
  /\ \A p, q \in Callers :
       Returned(p) /\ Returned(q) /\ text[p] = text[q]
         => /\ result[p].sentiment_label = result[q].sentiment_label
            /\ result[p].confidence_score = result[q].confidence_score

\* C2: once an initialization attempt has failed, no further attempt is
\* started and every predict call that ends fails with the initialization
\* error.
C2_FailedIsTerminal ==
  [][init_failed =>
       /\ init_calls' = init_calls
       /\ \A p \in Callers :
            pc[p] \notin Finished /\ pc'[p] \in Finished
              => pc'[p] = "raised" /\ error'[p] = E_INIT]_vars

\* C3: a predict call whose text is invalid (empty, whitespace-only or too
\* long) never starts backend initialization and never reaches classify.
C3_ValidationBeforeBackend ==
  \A p \in Callers :
    pc[p] \in InInit \cup {"classify", "attention"}
      => InputErrorOf[text[p]] = NoError

\* C4, as claimed: when a predict call has failed with an inference error,
\* the service state equals the state the call started in.
C4_FailedCallLeavesStateAsBefore ==
  \A p \in Callers : Failed(p, InferenceErrors) => ServiceState = entry

\* C4, amended: when a predict call has failed with an inference error, the
\* service state equals the state the call started in if the service was
\* initialized then, and is the fully initialized state otherwise (the call
\* completed the lazy initialization before it failed); and a call that
\* returns, returns the label and confidence the model gives for its text,
\* whatever failed before.
C4_FailedCallKeepsServiceUsable ==
  \A p \in Callers :
    /\ Failed(p, InferenceErrors)
         => ServiceState = (IF entry.is_initialized THEN entry ELSE ReadyState)
    /\ Returned(p)
         => \E i \in 1..Len(BackendOutput(text[p]).scores) :
              LET e == BackendOutput(text[p]).scores[i]
              IN /\ result[p].confidence_score = Round4(e.score)
                 /\ result[p].sentiment_label = map_sentiment_label(e.label)

\* C4 witness: a call on an initialized service has failed in the backend
C4_Witness ==
  calls >= 2 /\ Failed(1, {E_BACKEND}) /\ entry.is_initialized

\* C5: sanitizing a sanitized text changes nothing, and a sanitized text
\* contains no run of two spaces.
C5_SanitizeIdempotent ==
  /\ Len(s_runs) = 2 => s_runs[2] = s_runs[1]
  /\ Len(s_runs) >= 1 => ~Contains(s_runs[1], <<" ", " ">>)

\* C6, as claimed: every text with trimmed length in 1..10000 that matches
\* no suspicious pattern is accepted by validate_text.
C6_AcceptedByLengthAndPatterns ==
  ( /\ v_result # NotValidated
    /\ v_input.kind = "str"
    /\ Len(strip(v_input.s)) >= 1
    /\ Len(strip(v_input.s)) <= 10000
    /\ SuspiciousMessage(v_input.s) = "" )
  => v_result.is_valid

\* C6, amended: every text with trimmed length in 1..10000, at most 2000
\* words and at most 100 lines that matches no suspicious pattern is
\* accepted by validate_text.
C6_AcceptedWithinAllLimits ==
  ( /\ v_result # NotValidated
    /\ v_input.kind = "str"
    /\ Len(strip(v_input.s)) >= 1
    /\ Len(strip(v_input.s)) <= 10000
    /\ WordCount(v_input.s) <= 2000
    /\ LineCount(v_input.s) <= 100
    /\ SuspiciousMessage(v_input.s) = "" )
  => v_result.is_valid /\ v_result.error_message = "None"

\* C6 witness: a text of exactly 10000 characters after trimming was accepted
C6_Witness ==
  /\ v_input.kind = "str"
  /\ Len(v_input.s) > 10000
  /\ Len(strip(v_input.s)) = 10000
  /\ v_result.is_valid

\* C7: validate_text rejects empty or None input with 'cannot be empty',
\* whitespace-only input with 'only whitespace', and input whose trimmed
\* length exceeds 10000 with 'too long'.
C7_BasicRejectionsDistinct ==
  v_result # NotValidated =>
    /\ (v_input.kind = "None" \/ (v_input.kind = "str" /\ v_input.s = <<>>))
         => ~v_result.is_valid /\ v_result.error_message = "Text cannot be empty"
    /\ (v_input.kind = "str" /\ v_input.s # <<>>
          /\ \A i \in 1..Len(v_input.s) : IsSpace(v_input.s[i]))
         => /\ ~v_result.is_valid
            /\ v_result.error_message = "Text contains only whitespace"
    /\ (v_input.kind = "str" /\ Len(strip(v_input.s)) > 10000)
         => /\ ~v_result.is_valid
            /\ v_result.error_message = "Text too long (maximum 10000 characters)"

\* C8: _map_sentiment_label returns positive exactly for the labels whose
\* lower-cased form contains 'positive', 'pos' or '1', negative exactly for
\* the other labels whose lower-cased form contains 'negative', 'neg' or '0',
\* and neutral for the rest; a label with markers of both kinds is positive.
C8_LabelPriority ==
  label_out # "not called" =>
    LET l == lower(label_in)
        pos == \/ Contains(l, <<"p","o","s","i","t","i","v","e">>)
               \/ Contains(l, <<"p","o","s">>)
               \/ Contains(l, <<"1">>)
        neg == \/ Contains(l, <<"n","e","g","a","t","i","v","e">>)
               \/ Contains(l, <<"n","e","g">>)
               \/ Contains(l, <<"0">>)
    IN /\ label_out \in {"positive", "negative", "neutral"}
       /\ label_out = "positive" <=> pos
       /\ label_out = "negative" <=> ~pos /\ neg
       /\ label_out = "neutral" <=> ~pos /\ ~neg

\* C8 witness: an upper-case label with markers of both kinds was mapped
C8_Witness ==
  /\ label_out = "positive"
  /\ Contains(label_in, <<"0">>)
  /\ Contains(label_in, <<"P">>)
  /\ Contains(lower(label_in), <<"p", "o", "s">>)

\* C9: a result's confidence_score is the largest score the backend
\* returned, rounded to 4 decimal places, and its sentiment_label is the
\* canonical form of the label of the first entry with that score.
C9_ConfidenceIsFirstMaximum ==
  \A p \in Callers :
    Returned(p) =>
      LET scores == BackendOutput(text[p]).scores
          largest == CHOOSE m \in {scores[i].score : i \in 1..Len(scores)} :
                       \A j \in 1..Len(scores) : scores[j].score <= m
          first == CHOOSE i \in 1..Len(scores) :
                     /\ scores[i].score = largest
                     /\ \A j \in 1..(i - 1) : scores[j].score # largest
      IN /\ result[p].confidence_score = Round4(largest)
         /\ result[p].sentiment_label = map_sentiment_label(scores[first].label)
         /\ result[p].model_confidence = <<scores>>

\* C9 witness: a result for a text on which two classes tie for the maximum
C9_Witness ==
  /\ Returned(1)
  /\ \E i, j \in 1..Len(BackendOutput(text[1]).scores) :
       /\ i < j
       /\ BackendOutput(text[1]).scores[i].score = BackendOutput(text[1]).scores[j].score
       /\ result[1].confidence_score = Round4(BackendOutput(text[1]).scores[i].score)

\* C10: two predict calls on the same text, one with and one without
\* attention, return the same sentiment_label and confidence_score.
C10_AttentionKeepsPrediction ==
  \A p, q \in Callers :
    ( /\ Returned(p) /\ Returned(q)
      /\ text[p] = text[q]
      /\ include_attention[p] /\ ~include_attention[q] )
    => /\ result[p].sentiment_label = result[q].sentiment_label
       /\ result[p].confidence_score = result[q].confidence_score
       /\ result[p].has_attention /\ ~result[q].has_attention

\* C10 witness: both calls returned, the one with attention with empty lists
C10_Witness ==
  \E p, q \in Callers :
    /\ Returned(p) /\ Returned(q)
    /\ text[p] = text[q]
    /\ include_attention[p] /\ ~include_attention[q]
    /\ result[p].attention = EmptyAttention

\* C11: in every attribution attached to a returned result, each token's
\* contribution_score is its attention_score times s, with s = +1 exactly
\* when the result's sentiment_label is positive and s = -1 otherwise.
C11_ContributionSignFollowsLabel ==
  \A p \in Callers :
    Returned(p) /\ result[p].has_attention =>
      LET s == IF result[p].sentiment_label = "positive" THEN 1 ELSE -1
          ws == result[p].attention.attention_weights
          cs == result[p].attention.word_contributions
      IN /\ \A i \in 1..Len(ws) :
              /\ ws[i].contribution_score = ws[i].attention_score * s
              /\ Abs(ws[i].contribution_score) = ws[i].attention_score
         /\ \A i \in 1..Len(cs) : cs[i].score * s >= 0

\* the place of token k of ws in a stable descending order by absolute
\* contribution score
RankByAbsScore(ws, k) ==
  1 + Cardinality({j \in 1..Len(ws) :
                     Abs(ws[j].contribution_score) > Abs(ws[k].contribution_score)})
    + Cardinality({j \in 1..(k - 1) :
                     Abs(ws[j].contribution_score) = Abs(ws[k].contribution_score)})

\* C12: top_contributing_words has at most 10 entries, in non-increasing
\* order of absolute score; it holds the 10 tokens of largest absolute score
\* of the token list, tokens of equal absolute score in their token order.
C12_TopWordsStableTopTen ==
  \A p \in Callers :
    Returned(p) /\ result[p].has_attention =>
      LET ws == result[p].attention.attention_weights
          top == result[p].attention.top_contributing_words
      IN /\ Len(top) <= 10
         /\ Len(top) = Min(10, Len(ws))
         /\ \A i, j \in 1..Len(top) :
              i < j => Abs(top[i].score) >= Abs(top[j].score)
         /\ \A k \in 1..Len(ws) :
              RankByAbsScore(ws, k) <= 10 =>
                top[RankByAbsScore(ws, k)] =
                  [token |-> ws[k].token, score |-> ws[k].contribution_score]

\* C12 witness: an attribution of more than 10 tokens was returned, with
\* two tokens of the same score of which only the earlier one is in the top 10
C12_Witness ==
  /\ Returned(1) /\ result[1].has_attention
  /\ LET ws == result[1].attention.attention_weights
         top == result[1].attention.top_contributing_words
     IN /\ Len(ws) > 10
        /\ Len(top) = 10
        /\ \E i, j \in 1..Len(ws) :
             /\ i < j
             /\ ws[i].contribution_score = ws[j].contribution_score
             /\ \E n \in 1..Len(top) : top[n].token = ws[i].token
             /\ \A n \in 1..Len(top) : top[n].token # ws[j].token

\* C13: a predict call that has reached the attention extraction always
\* returns, whether the extraction succeeds or fails: it raises nothing, its
\* sentiment_label and confidence_score are those of the base prediction,
\* and its attribution is the extracted one or, when the extraction failed,
\* three empty lists.
C13_AttentionFailureNotSurfaced ==
  [][\A p \in Callers :
       pc[p] = "attention" /\ pc'[p] # "attention" =>
         LET base == base_result(pipeline_call(text[p]), TextOf(text[p]))
             argmax == BackendOutput(text[p]).argmax
             after == result'[p]
         IN /\ pc'[p] = "returned"
            /\ error'[p] = NoError
            /\ after.returned
            /\ after.sentiment_label = base.sentiment_label
            /\ after.sentiment_label = result[p].sentiment_label
            /\ after.confidence_score = base.confidence_score
            /\ after.has_attention
            /\ \/ after.attention = EmptyAttention
               \/ /\ argmax \in DOMAIN label_mapping
                  /\ after.attention = extract_attention_weights(text[p], argmax)
            /\ argmax \notin DOMAIN label_mapping =>
                 after.attention = EmptyAttention]_vars

\* C13 witness: a call with attention returned a positive prediction with
\* empty attribution lists, the extraction having failed on the table lookup
\* of line 204
C13_Witness ==
  /\ Returned(1)
  /\ include_attention[1]
  /\ BackendOutput(text[1]).argmax \notin DOMAIN label_mapping
  /\ result[1].has_attention
  /\ result[1].attention = EmptyAttention
  /\ result[1].sentiment_label = "positive"
  /\ error[1] = NoError

\* the texts of ServiceTexts without a non-whitespace character
BlankTexts ==
  {t \in TextIds : \A i \in 1..Len(TextOf(t)) : IsSpace(TextOf(t)[i])}

\* C14: on an initialized service predict raises 'Input text cannot be
\* empty' exactly for a text that is empty or all whitespace, and 'Input
\* text too long' exactly for another text of more than 10000 characters;
\* neither reaches the backend; a text with a non-whitespace character and
\* at most 10000 characters passes the check, and a returned result's
\* input_text_length is len(text).
C14_InputCheckOnReadyService ==
  \A p \in Callers :
    LET blank == text[p] \in BlankTexts
        len == Len(TextOf(text[p]))
    IN /\ pc[p] \in {"classify", "attention", "returned"} =>
            ~blank /\ len <= 10000
       /\ pc[p] = "raised" /\ entry.is_initialized =>
            \/ error[p] = E_EMPTY /\ blank
            \/ error[p] = E_TOO_LONG /\ ~blank /\ len > 10000
            \/ error[p] = E_BACKEND /\ ~blank /\ len <= 10000
       /\ Returned(p) => result[p].input_text_length = len

\* C14 witness: an initialized service returned a result for a text of
\* exactly 10000 characters
C14_Witness ==
  /\ Returned(1)
  /\ entry.is_initialized
  /\ Len(TextOf(text[1])) = 10000
  /\ result[1].input_text_length = 10000

\* the five suspicious patterns in the order of the claim: whether each
\* matches s, and its message
PatternHits(s) ==
  LET low == lower(s)
  IN << Contains(low, <<"<","s","c","r","i","p","t">>),
        Contains(low, <<"j","a","v","a","s","c","r","i","p","t",":">>),
        Contains(low, <<"d","a","t","a",":","t","e","x","t","/","h","t","m","l">>),
        Contains(low, <<"v","b","s","c","r","i","p","t",":">>),
        MatchesEventHandler(s) >>

PatternMessages ==
  << "HTML script tags not allowed", "JavaScript code not allowed",
     "Data URLs not allowed", "VBScript not allowed",
     "Event handlers not allowed" >>

WordsOf(s) ==
  Cardinality({i \in 1..Len(s) :
                 ~IsSpace(s[i]) /\ (i = 1 \/ IsSpace(s[i - 1]))})

\* the number of lines of s: a line ends at "\n", at "\r" or at "\r\n", and
\* characters after the last line end make one more line
LinesOf(s) ==
  Cardinality({i \in 1..Len(s) :
                 \/ s[i] = "\n"
                 \/ s[i] = "\r" /\ (i = Len(s) \/ s[i + 1] # "\n")})
    + (IF s # <<>> /\ s[Len(s)] \notin {"\n", "\r"} THEN 1 ELSE 0)

\* C16: for a text that passes the length check, validate_text rejects with
\* 'too many words' exactly when the text has more than 2000 words, and with
\* 'too many lines' exactly when it has at most 2000 words and more than 100
\* lines; 2000 words and 100 lines are within the limits.
C16_WordsThenLines ==
  ( /\ v_result # NotValidated
    /\ v_input.kind = "str"
    /\ Len(strip(v_input.s)) >= 1
    /\ Len(strip(v_input.s)) <= 10000 )
  => LET words == WordsOf(v_input.s)
         lines == LinesOf(v_input.s)
     IN /\ v_result.error_message = "Text contains too many words (maximum 2000)"
             <=> words > 2000
        /\ v_result.error_message = "Text contains too many lines (maximum 100)"
             <=> words <= 2000 /\ lines > 100
        /\ v_result.error_message
             \in {"Text contains too many words (maximum 2000)",
                  "Text contains too many lines (maximum 100)"}
             => ~v_result.is_valid /\ v_result.metadata = <<>>

\* C16 witness: a text over both limits was rejected for its words
C16_Witness ==
  /\ v_input.kind = "str"
  /\ WordsOf(v_input.s) > 2000
  /\ LinesOf(v_input.s) > 100
  /\ Len(strip(v_input.s)) <= 10000
  /\ v_result.error_message = "Text contains too many words (maximum 2000)"

\* C16 witness of the limits: a text of exactly 2000 words and 100 lines
\* was accepted
C16_WitnessAtLimits ==
  /\ v_input.kind = "str"
  /\ WordsOf(v_input.s) = 2000
  /\ LinesOf(v_input.s) = 100
  /\ v_result.is_valid

\* the messages validate_text returns with a rejection
FailureMessages ==
  { "Text cannot be empty", "Text must be a string",
    "Text too short (minimum 1 characters)",
    "Text too long (maximum 10000 characters)",
    "Text contains only whitespace",
    "Text contains too many words (maximum 2000)",
    "Text contains too many lines (maximum 100)",
    "HTML script tags not allowed", "JavaScript code not allowed",
    "Data URLs not allowed", "VBScript not allowed",
    "Event handlers not allowed",
    "Validation failed: The truth value of an array is ambiguous" }

\* C17: validate_text always returns: (True, None, metadata) for an accepted
\* text and (False, message, {}) for every failure, so is_valid holds
\* exactly when error_message is None and a rejection has empty metadata;
\* None, empty, non-string, too long, whitespace-only, too many words or
\* lines, suspicious content and an internal exception are all rejections.
C17_FailuresAreReturnedValues ==
  v_result # NotValidated =>
    /\ v_result.is_valid \in BOOLEAN
    /\ v_result.is_valid <=> v_result.error_message = "None"
    /\ ~v_result.is_valid =>
         v_result.metadata = <<>> /\ v_result.error_message \in FailureMessages
    /\ v_result.is_valid =>
         DOMAIN v_result.metadata =
           {"original_length", "sanitized_length", "length", "word_count",
            "line_count", "contains_urls", "contains_emails", "contains_html"}
    /\ ( \/ v_input.kind # "str"
         \/ v_input.s = <<>>
         \/ \A i \in 1..Len(v_input.s) : IsSpace(v_input.s[i])
         \/ Len(strip(v_input.s)) > 10000
         \/ WordsOf(v_input.s) > 2000
         \/ LinesOf(v_input.s) > 100
         \/ LET hits == PatternHits(v_input.s)
            IN \E i \in 1..5 : hits[i] )
       => ~v_result.is_valid

\* C17 witness: the truth test of the argument raised inside validate_text
\* and the call returned the failure
C17_Witness ==
  /\ v_input.kind = "array"
  /\ v_result # NotValidated
  /\ ~v_result.is_valid
  /\ v_result.error_message
       = "Validation failed: The truth value of an array is ambiguous"
  /\ v_result.metadata = <<>>

\* C18: once the initialization flag is set, no step of a predict call
\* changes the flag or the pipeline, tokenizer or model handle, and every
\* call that returns, returns the result the model gives for its text alone.
C18_ReadyServiceIsReadOnly ==
  [][ /\ is_initialized =>
           /\ is_initialized'
           /\ pipeline' = pipeline
           /\ tokenizer' = tokenizer
           /\ model' = model
      /\ \A p \in Callers :
           pc'[p] = "returned" =>
             LET alone == base_result(pipeline_call(text'[p]), TextOf(text'[p]))
             IN /\ result'[p].sentiment_label = alone.sentiment_label
                /\ result'[p].confidence_score = alone.confidence_score
                /\ result'[p].model_confidence = alone.model_confidence
                /\ result'[p].input_text_length = alone.input_text_length
    ]_vars

\* C20: validate_text_input returns the text without its leading and
\* trailing whitespace exactly when that trimmed text is non-empty and at
\* most 10000 characters long; otherwise it raises ValueError: 'Text cannot
\* be empty' for empty input, 'Text contains only whitespace' for
\* whitespace-only input, 'Text too long' for a trimmed length above 10000.
\* A returned value passes the input check of predict.
C20_InputCheckReturnsTrimmedText ==
  input_out # NotChecked =>
    LET s == v_input.s
        first == CHOOSE i \in 1..(Len(s) + 1) :
                   /\ i = Len(s) + 1 \/ ~IsSpace(s[i])
                   /\ \A j \in 1..(i - 1) : IsSpace(s[j])
        last == CHOOSE i \in 0..Len(s) :
                  /\ i = 0 \/ ~IsSpace(s[i])
                  /\ \A j \in (i + 1)..Len(s) : IsSpace(s[j])
        trimmed == SubSeq(s, first, last)
    IN /\ ~input_out.raised <=> Len(trimmed) >= 1 /\ Len(trimmed) <= 10000
       /\ ~input_out.raised =>
            /\ input_out.value = trimmed
            /\ input_out.value # <<>>
            /\ ~IsSpace(Head(input_out.value))
            /\ ~IsSpace(input_out.value[Len(input_out.value)])
            /\ InputError(input_out.value) = NoError
       /\ input_out.raised =>
            input_out.error =
              IF s = <<>> THEN "ValueError: Text cannot be empty"
              ELSE IF trimmed = <<>> THEN "ValueError: Text contains only whitespace"
              ELSE "ValueError: Text too long (maximum 10,000 characters)"

\* C20 witness: a text with surrounding whitespace and exactly 10000 other
\* characters was returned trimmed
C20_Witness ==
  /\ ~input_out.raised
  /\ input_out # NotChecked
  /\ Len(v_input.s) > 10000
  /\ Len(input_out.value) = 10000
  /\ InputError(input_out.value) = NoError

\* what the claim says of the items the batch command has gone through: the
\* results are in input order, each tagged with the 1-based position of its
\* text among the texts of the file and holding the prediction for it; every
\* text before the current one has a result or a warning and not both; a text
\* that fails validation has a warning; after the loop all texts are done.
BatchItemsProcessedInOrder ==
  LET done == IF cli_pc = "predict" THEN cli_i - 1
              ELSE IF cli_pc \in {"loop", "exited"} /\ cli_i >= 1 THEN cli_i - 1
              ELSE 0
      tagged == {cli_results[k].text_index : k \in 1..Len(cli_results)}
      warned == {cli_warnings[k] : k \in 1..Len(cli_warnings)}
  IN /\ \A j, k \in 1..Len(cli_results) :
          j < k => cli_results[j].text_index < cli_results[k].text_index
     /\ \A j, k \in 1..Len(cli_warnings) :
          j < k => cli_warnings[j] < cli_warnings[k]
     /\ tagged \cup warned = 1..done
     /\ tagged \cap warned = {}
     /\ \A k \in 1..Len(cli_results) :
          LET r == cli_results[k]
              alone == base_result(pipeline_call(r.input_text), TextOf(r.input_text))
          IN /\ r.input_text = cli_texts[r.text_index]
             /\ ~InputCheckOf[r.input_text].raised
             /\ r.sentiment_label = alone.sentiment_label
             /\ r.confidence_score = alone.confidence_score
     /\ \A i \in 1..done :
          Len(TextOf(cli_texts[i])) > 10000 => i \in warned
     /\ cli_pc = "exited" /\ cli_texts # <<>> => done = Len(cli_texts)

\* C19, as claimed: the batch command goes through the texts in order,
\* skips a failing text with a warning, keeps the results of the others in
\* input order with their 1-based position as text_index, and exits with 0
\* if at least one text succeeded and with 1 if none did.
C19_BatchExitsZeroIffSomeSucceeded ==
  /\ BatchItemsProcessedInOrder
  /\ cli_pc = "exited" => (cli_exit = 0 <=> cli_results # <<>>)
  /\ cli_pc = "exited" => cli_exit \in {0, 1}

\* C19, amended: as above, but the command exits with 0 exactly when at
\* least one text succeeded and the results were displayed or written; it
\* exits with 1 when no text succeeded or writing the results failed.
C19_BatchExitCode ==
  /\ BatchItemsProcessedInOrder
  /\ cli_pc = "exited" =>
       /\ cli_exit \in {0, 1}
       /\ cli_exit = 0 =>
            cli_results # <<>> /\ cli_message = ""
       /\ cli_exit = 1 =>
            \/ cli_results = <<>> /\ cli_message # ""
            \/ cli_message = "Error: the results could not be written"
       /\ cli_results = <<>> => cli_exit = 1
  /\ cli_pc # "exited" => cli_exit = -1

\* C19 witness: the command exited with 0 after a text failed in predict
\* and a later text was processed and tagged with its position
C19_Witness ==
  /\ cli_pc = "exited"
  /\ cli_exit = 0
  /\ \E w \in 1..Len(cli_warnings), k \in 1..Len(cli_results) :
       /\ cli_warnings[w] < cli_results[k].text_index
       /\ ~InputCheckOf[cli_texts[cli_warnings[w]]].raised
       /\ cli_results[k].text_index > k

\* C23, as claimed: for an accepted text the flags contains_urls,
\* contains_emails and contains_html of the metadata are those of the
\* sanitized text, the string word_count and line_count are counted on.
C23_FlagsOfSanitizedText ==
  v_result.is_valid =>
    LET sanitized == sanitize_text(v_input.s)
        m == v_result.metadata
    IN /\ m.contains_urls = ContainsUrl(sanitized)
       /\ m.contains_emails = ContainsEmail(sanitized)
       /\ m.contains_html = ContainsHtml(sanitized)
       /\ m.word_count = WordCount(sanitized)
       /\ m.line_count = LineCount(sanitized)

\* C23, amended: for an accepted text the flags contains_urls,
\* contains_emails and contains_html of the metadata are those of the text as
\* it was passed, before sanitization; word_count and line_count are counted
\* on the sanitized text.
C23_FlagsOfOriginalText ==
  v_result.is_valid =>
    LET sanitized == sanitize_text(v_input.s)
        m == v_result.metadata
    IN /\ m.contains_urls = ContainsUrl(v_input.s)
       /\ m.contains_emails = ContainsEmail(v_input.s)
       /\ m.contains_html = ContainsHtml(v_input.s)
       /\ m.word_count = WordCount(sanitized)
       /\ m.line_count = LineCount(sanitized)

\* C23 witness: an accepted text in which a URL is only there before the
\* sanitization takes a tag out, and is reported
C23_Witness ==
  /\ v_result.is_valid
  /\ v_result.metadata.contains_urls
  /\ v_result.metadata.contains_html
  /\ ~ContainsUrl(sanitize_text(v_input.s))
  /\ ~ContainsHtml(sanitize_text(v_input.s))

\* C24: for an accepted text the metadata field length is the length of the
\* text trimmed but not sanitized, and word_count is the number of
\* whitespace-separated words of the sanitized text; the two come from
\* different strings (the sanitized text may be shorter than length says).
C24_LengthOfTrimmedWordsOfSanitized ==
  v_result.is_valid =>
    LET sanitized == sanitize_text(v_input.s)
        m == v_result.metadata
    IN /\ m.length = Len(strip(v_input.s))
       /\ m.word_count = WordsOf(sanitized)
       /\ m.sanitized_length = Len(sanitized)
       /\ m.sanitized_length <= m.length
       /\ m.length <= m.original_length
       /\ m.word_count <= m.sanitized_length

\* C24 witness: an accepted text with surrounding whitespace and tags, whose
\* length field is neither the length of the input nor that of the sanitized
\* text, and which has more characters by the length field than the
\* sanitized text the words were counted on
C24_Witness ==
  /\ v_result.is_valid
  /\ ContainsHtml(v_input.s)
  /\ v_result.metadata.length < v_result.metadata.original_length
  /\ v_result.metadata.length > v_result.metadata.sanitized_length
  /\ v_result.metadata.word_count >= 2
  /\ v_result.metadata.word_count # WordsOf(strip(v_input.s))

\* C30: for an accepted text the metadata line_count is at most 1 (1, or 0
\* when nothing is left of the text after sanitization), whatever number of
\* lines up to 100 the text has: the lines are counted on the sanitized
\* text, which has no line break left, while the limit of 100 lines is
\* checked on the text as passed.
C30_LineCountAtMostOne ==
  v_result.is_valid =>
    LET sanitized == sanitize_text(v_input.s)
    IN /\ v_result.metadata.line_count <= 1
       /\ v_result.metadata.line_count = LinesOf(sanitized)
       /\ v_result.metadata.line_count = (IF sanitized = <<>> THEN 0 ELSE 1)
       /\ \A i \in 1..Len(sanitized) : sanitized[i] \notin {"\n", "\r"}
       /\ LinesOf(v_input.s) <= MAX_LINES

\* C30 witness: an accepted text of exactly 100 lines with line_count 1
C30_Witness ==
  /\ v_result.is_valid
  /\ LinesOf(v_input.s) = MAX_LINES
  /\ v_result.metadata.line_count = 1
  /\ v_result.metadata.word_count = MAX_LINES

\* C26: every text accepted by validate_text passes the input check of
\* predict (lines 99-103): it is not empty after trimming and has at most
\* 10000 characters, so predict raises neither of its two input errors for it.
C26_AcceptedTextPassesInputCheck ==
  v_result.is_valid => InputError(v_input.s) = NoError

\* C22: the initialization flag changes only from False to True, and only in
\* the last step of an _initialize_pipeline that went through (the handle
\* goes Uninitialized, Initializing, Ready); Ready is never left; whenever
\* the flag is True, pipeline, tokenizer and model are all set; and
\* get_model_info reports 'not_initialized' exactly while the flag is False.
C22_BackendStateMachine ==
  /\ [](is_initialized => pipeline # 0 /\ tokenizer # 0 /\ model # 0)
  /\ [](get_model_info.status = "not_initialized" <=> ~is_initialized)
  /\ [](get_model_info.status = "initialized" <=> is_initialized)
  /\ [][ /\ is_initialized => is_initialized'
         /\ is_initialized' # is_initialized =>
              \E p \in Callers :
                /\ pc[p] = "set_flag" /\ pc'[p] = "validate"
                /\ pipeline # 0 /\ tokenizer # 0 /\ model # 0
         /\ <<pipeline, tokenizer, model>>' # <<pipeline, tokenizer, model>> =>
              \E p \in Callers : pc[p] \in InInit ]_vars

\* C22 witness: the service is Ready after one attempt failed and a later
\* one went through, a call has returned, and get_model_info says so
C22_Witness ==
  /\ is_initialized
  /\ init_failed
  /\ get_model_info.status = "initialized"
  /\ \E p \in Callers : Returned(p)

\* C27: under every interleaving of concurrent predict calls, a call is at
\* its input check, at classify or at the attention extraction only when an
\* initialization that set pipeline, tokenizer and model has completed; no
\* call uses an unset handle.
C27_ClassifyOnlyOnInitializedHandles ==
  \A p \in Callers :
    /\ pc[p] \in {"validate", "classify", "attention"} =>
         is_initialized /\ pipeline # 0 /\ tokenizer # 0 /\ model # 0
    /\ error[p] # E_NONE_CALL
    /\ Returned(p) => is_initialized

\* C27 witness: a call that started while another call's initialization was
\* in progress is at classify, the other call being past its initialization
C27_Witness ==
  /\ init_calls = 1
  /\ \E p, q \in Callers :
       /\ p # q
       /\ pc[p] = "classify"
       /\ pipeline = q /\ tokenizer = q /\ model = q
       /\ pc[q] \notin InInit \cup {"idle", "check_init"}

\* C28: when _initialize_pipeline has failed, the call has raised the
\* initialization error and the service is as before the attempt and as
\* constructed: the flag is False and pipeline, tokenizer and model are unset.
C28_FailedInitializationLeavesNothing ==
  \A p \in Callers :
    Failed(p, {E_INIT}) =>
      /\ ~is_initialized
      /\ pipeline = 0 /\ tokenizer = 0 /\ model = 0
      /\ ServiceState = entry

\* the tokens of text t that are not start, end or padding tokens, in token
\* order, each with the head-averaged attention of the first row at its
\* position (to 4 decimal places)
NonSpecialTokens(t) ==
  LET tk == Tokenized(t)
      kept == SelectSeq([i \in 1..Len(tk.tokens) |-> i],
                        LAMBDA i : i \notin tk.special)
  IN [n \in 1..Len(kept) |->
        [token |-> tk.tokens[kept[n]],
         attention_score |-> Round4(ClsAttention(tk.heads)[kept[n]])]]

\* C25: the token list of an attribution holds exactly the tokens of the
\* input that are not start, end or padding tokens, in token order, each
\* with the attention of the first row of the head-averaged last layer at
\* its position; and every entry of top_contributing_words is a token of
\* this list with its contribution score.
C25_AttributionTokens ==
  \A p \in Callers :
    ( /\ Returned(p)
      /\ result[p].has_attention
      /\ result[p].attention.attention_weights # <<>> )
    => LET weights == result[p].attention.attention_weights
           expected == NonSpecialTokens(text[p])
       IN /\ Len(weights) = Len(expected)
          /\ \A n \in 1..Len(expected) :
               /\ weights[n].token = expected[n].token
               /\ weights[n].attention_score = expected[n].attention_score
          /\ \A k \in 1..Len(result[p].attention.top_contributing_words) :
               \E n \in 1..Len(weights) :
                 /\ weights[n].token =
                      result[p].attention.top_contributing_words[k].token
                 /\ weights[n].contribution_score =
                      result[p].attention.top_contributing_words[k].score

\* C21: after any number n of add_prediction calls the history holds
\* min(n, 50) entries, never more than 50, and they are the most recent
\* ones in insertion order: the 51st call evicts the oldest entry.
C21_HistoryKeepsMostRecentFifty ==
  /\ Len(prediction_history) <= 50
  /\ Len(prediction_history) = Min(added, 50)
  /\ \A k \in 1..Len(prediction_history) :
       prediction_history[k].timestamp = added - Len(prediction_history) + k

\* C21 witness: the 51st call has evicted the first entry
C21_Witness ==
  /\ added = 51
  /\ Len(prediction_history) = 50
  /\ prediction_history[1].timestamp = 2
  /\ prediction_history[50].timestamp = 51

\* C29: after any sequence of add_prediction calls the entries of the
\* history have pairwise distinct ids that increase strictly in insertion
\* order, and so have the entries of the web app's analysis_history.
C29_HistoryIdsDistinctAndIncreasing ==
  /\ \A j, k \in 1..Len(prediction_history) :
       j < k => prediction_history[j].id < prediction_history[k].id
  /\ \A j, k \in 1..Len(analysis_history) :
       j < k => analysis_history[j].id < analysis_history[k].id

====
